---- MODULE Spec2Model ----
(***************************************************************************)
(* A model of bot.py: the relay handler handle_file, the upload client     *)
(* upload_to_external_service and the liveness handler health_check, all   *)
(* running on one asyncio event loop.                                      *)
(*                                                                         *)
(* A coroutine runs without interruption from one await to the next, so    *)
(* every action below is one such segment of handle_file: it starts when   *)
(* the awaited call returns or raises and ends at the next await (or at    *)
(* the end of the handler).  The one exception is the synchronous          *)
(* requests.put of upload_to_external_service: it is a blocking call made  *)
(* on the event-loop thread, so it is split into its start and its end,    *)
(* with the variable `loop` recording that the thread is held meanwhile.   *)
(*                                                                         *)
(* Strings are sequences of tokens, so that concatenation (f-strings,      *)
(* os.path.join) and str.strip are computed rather than assumed.  A Python *)
(* Optional is a sequence of length 0 (None) or 1.                         *)
(***************************************************************************)
EXTENDS Integers, Sequences, FiniteSets, TLC

\* ------------------------------------------------------------------ bounds

\* Longest response body (in characters) the upload sink returns.
MaxBody == 2
\* How many health requests may be waiting for an answer at once.
MaxHealth == 1
\* Granularity of the clock that times the HTTP PUT.
ClockStep == 30

\* --------------------------------------------------------------- constants

\* requests.put(..., timeout=60)
PutTimeout == 60

\* temp_dir = "/tmp"
temp_dir == <<"/", "tmp">>

\* The two handler invocations that may be in progress together.
RunIds == {1, 2}

\* ----------------------------------------------------------------- strings

None == <<>>
Some(x) == <<x>>

Min(a, b) == IF a < b THEN a ELSE b

\* Characters str.strip() removes.
Whitespace == {" ", "\n"}

RECURSIVE LStrip(_)
LStrip(s) ==
    IF s # <<>> /\ Head(s) \in Whitespace THEN LStrip(Tail(s)) ELSE s

RECURSIVE RStrip(_)
RStrip(s) ==
    IF s # <<>> /\ s[Len(s)] \in Whitespace
    THEN RStrip(SubSeq(s, 1, Len(s) - 1))
    ELSE s

\* A strip() that forgets the trailing whitespace.
Strip_LeadingOnly(s) == LStrip(s)

\* response.text.strip()
Strip(s) == RStrip(LStrip(s))

\* os.path.join(temp_dir, file_name): an absolute second component replaces
\* the first; otherwise the two are joined by one separator.
PathJoin(dir, name) ==
    IF name # <<>> /\ name[1] = "/" THEN name
    ELSE IF dir # <<>> /\ dir[Len(dir)] = "/" THEN dir \o name
    ELSE dir \o <<"/">> \o name

\* The reply texts of handle_file.
MsgStorage == <<"Server error: Could not create temporary storage.">>
MsgNoInfo == <<"Could not get file information.">>
MsgProcessing == <<"Processing your file, please wait...">>
MsgUploadFailed == <<"Sorry, the upload failed.">>
MsgError == <<"An error occurred while processing your file.">>
LinkPrefix == <<"Download link:\n">>

\* ------------------------------------------------------------------ events

\* Platform identifiers; "" is the identifier the platform failed to supply.
FileIds == {"", "f1"}
\* Optional display names: None, "", "a", and names that are paths: "../x",
\* "d/x" and the absolute "/x".
NameOpts == {None, Some(<<>>), Some(<<"a">>), Some(<<"..", "/", "x">>),
             Some(<<"d", "/", "x">>), Some(<<"/", "x">>)}

Attachments == [file_id : FileIds, file_name : NameOpts]
DocumentOpts == {None} \cup {Some(d) : d \in Attachments}
VideoOpts == {None} \cup {Some(d) : d \in Attachments}
\* msg.photo: the resolutions of one photo, smallest first (empty: no photo).
PhotoOpts == {<<>>, <<[file_id |-> "f1"]>>,
              <<[file_id |-> "f1"], [file_id |-> "f2"]>>,
              <<[file_id |-> "f2"], [file_id |-> ""]>>}

Events == [document : DocumentOpts, photo : PhotoOpts, video : VideoOpts]

\* How many of document, photo and video the event carries.
AttachmentCount(ev) ==
    (IF ev.document # None THEN 1 ELSE 0)
    + (IF ev.photo # <<>> THEN 1 ELSE 0)
    + (IF ev.video # None THEN 1 ELSE 0)

Doc(id, name) ==
    [document |-> Some([file_id |-> id, file_name |-> Some(name)]),
     photo |-> <<>>, video |-> None]

\* The events delivered while another run is in progress: display names that
\* collide ("a" twice, with different bytes) and one that does not.
ConcEvents == {Doc("f1", <<"a">>), Doc("f2", <<"a">>), Doc("f3", <<"b">>)}

\* The updates the platform delivers: one of any shape, or a document named
\* "a" together with one of ConcEvents.
Inboxes ==
    {[r \in RunIds |-> IF r = 1 THEN Some(e) ELSE None] : e \in Events}
    \cup {[r \in RunIds |-> IF r = 1 THEN Some(Doc("f1", <<"a">>))
                            ELSE Some(e)] : e \in ConcEvents}

\* The values of TELEGRAM_BOT_TOKEN: not set, set to "", set to a token.
Tokens == {None, Some(<<>>), Some(<<"t">>)}

\* The response bodies of the upload sink.
BodyChars == {" ", "u"}
RECURSIVE SeqsUpTo(_, _)
SeqsUpTo(S, n) ==
    IF n = 0 THEN {<<>>}
    ELSE LET shorter == SeqsUpTo(S, n - 1)
         IN  shorter \cup {Append(s, c) : s \in shorter, c \in S}
Bodies == SeqsUpTo(BodyChars, MaxBody)

\* ------------------------------------------------------------------- state

VARIABLES
    token,          \* TOKEN, the value of TELEGRAM_BOT_TOKEN (None: not set)
    mainPc,         \* where main is suspended
    mainLog,        \* the messages main has logged
    inbox,          \* the update each run is invoked with (None: no update)
    pc,             \* where each run of handle_file is suspended
    file_id,        \* local file_id (None until classified)
    file_name,      \* local file_name
    temp_file_path, \* local temp_file_path (None: not in locals())
    external_link,  \* local external_link (None or the stripped body)
    escaped,        \* whether an exception left handle_file
    log,            \* per run: the calls it made on its collaborators
    dirExists,      \* whether temp_dir exists
    files,          \* the files under the staged paths
    loop,           \* the run whose blocking call holds the thread, or None
    putElapsed,     \* time the HTTP PUT in progress has taken
    healthPending   \* health requests received and not yet answered

mainVars == <<token, mainPc, mainLog>>

vars == <<token, mainPc, mainLog, inbox, pc, file_id, file_name, temp_file_path, external_link,
          escaped, log, dirExists, files, loop, putElapsed, healthPending>>

\* ---------------------------------------------------------- pure functions

\* Python truthiness of an optional string: neither None nor "".
Truthy(opt) == opt # None /\ opt[1] # <<>>

\* file_name = x.file_name or default
NameOr(opt, default) == IF Truthy(opt) THEN opt[1] ELSE default

\* A classifier that takes the first (smallest) resolution of a photo.
Classify_FirstPhoto(ev) ==
    IF ev.document # None
    THEN [kind |-> "task",
          file_id |-> ev.document[1].file_id,
          file_name |-> NameOr(ev.document[1].file_name, <<"document">>)]
    ELSE IF ev.photo # <<>>
    THEN LET id == ev.photo[1].file_id
         IN  [kind |-> "task",
              file_id |-> id,
              file_name |-> <<"photo_", id, ".jpg">>]
    ELSE IF ev.video # None
    THEN LET id == ev.video[1].file_id
         IN  [kind |-> "task",
              file_id |-> id,
              file_name |-> NameOr(ev.video[1].file_name,
                                   <<"video_", id, ".mp4">>)]
    ELSE [kind |-> "skip", file_id |-> "", file_name |-> <<"file">>]

\* Lines 66-79: which attachment is relayed, under which identifier and
\* display name; document first, then photo, then video, else nothing.
Classify(ev) ==
    IF ev.document # None
    THEN [kind |-> "task",
          file_id |-> ev.document[1].file_id,
          file_name |-> NameOr(ev.document[1].file_name, <<"document">>)]
    ELSE IF ev.photo # <<>>
    THEN LET id == ev.photo[Len(ev.photo)].file_id
         IN  [kind |-> "task",
              file_id |-> id,
              file_name |-> <<"photo_", id, ".jpg">>]
    ELSE IF ev.video # None
    THEN LET id == ev.video[1].file_id
         IN  [kind |-> "task",
              file_id |-> id,
              file_name |-> NameOr(ev.video[1].file_name,
                                   <<"video_", id, ".mp4">>)]
    ELSE [kind |-> "skip", file_id |-> "", file_name |-> <<"file">>]

\* A handler that stages every attachment under one fixed name.
StagedPath_Fixed(name) == PathJoin(temp_dir, <<"file">>)

\* Line 89: temp_file_path = os.path.join(temp_dir, file_name)
StagedPath(name) == PathJoin(temp_dir, name)

\* Lines 29-46: what upload_to_external_service returns for each way the
\* PUT can end: the stripped body on a success status, None otherwise.
UploadReturn(outcome, body) ==
    IF outcome = "ok" THEN Some(Strip(body)) ELSE None

\* A handler that reports a failed upload with the generic message.
UploadReplyText_Generic(link) ==
    IF Truthy(link) THEN LinkPrefix \o link[1] ELSE MsgError

\* Lines 101-104: the reply for the upload's result (`if external_link`).
UploadReplyText(link) ==
    IF Truthy(link) THEN LinkPrefix \o link[1] ELSE MsgUploadFailed

\* A handler that goes to get_file without acknowledging.
NextAfterClassify_NoAck(id) ==
    IF id = "" THEN "AwaitNoInfoReply" ELSE "AwaitGetFile"

\* A handler without the `if not file_id` check.
NextAfterClassify_NoCheck(id) == "AwaitAck"

\* Lines 81-85: with no identifier the handler replies and returns; with
\* one it awaits the acknowledgment.
NextAfterClassify(id) ==
    IF id = "" THEN "AwaitNoInfoReply" ELSE "AwaitAck"

\* A handler that calls get_file again when it raised.
NextAfterGetFile_Retry(ok) ==
    IF ok THEN "AwaitDownload" ELSE "AwaitGetFile"

\* Lines 87-93 and 106-108: after get_file the download is awaited; if
\* get_file raised, the reply of the except clause is.
NextAfterGetFile(ok) ==
    IF ok THEN "AwaitDownload" ELSE "AwaitErrReply"

\* ------------------------------------------------------------- filesystem

Exists(path) == path \in DOMAIN files

WriteFile(fs, path, content) ==
    [p \in DOMAIN fs \cup {path} |-> IF p = path THEN content ELSE fs[p]]

RemoveFile(fs, path) == [p \in DOMAIN fs \ {path} |-> fs[p]]

\* Lines 109-116, the finally block.  Its guard:
\* 'temp_file_path' in locals() and os.path.exists(temp_file_path)
CleanupApplies(r) == temp_file_path[r] # None /\ Exists(temp_file_path[r][1])

\* A handler without the finally block: the staged file stays.
FilesAfterCleanup_Keep(r, rmOk) == files

\* The files after the finally block of run r, os.remove succeeding or not.
FilesAfterCleanup(r, rmOk) ==
    IF CleanupApplies(r) /\ rmOk
    THEN RemoveFile(files, temp_file_path[r][1])
    ELSE files

\* The log of run r after the finally block.
LogAfterCleanup(lg, r, rmOk) ==
    IF CleanupApplies(r)
    THEN Append(lg, [op |-> "remove", arg |-> temp_file_path[r][1],
                     res |-> IF rmOk THEN "ok" ELSE "raise"])
    ELSE lg

Outcome(ok) == IF ok THEN "ok" ELSE "raise"

ReplyEntry(text, ok) == [op |-> "reply", arg |-> text, res |-> Outcome(ok)]

\* -------------------------------------------------------------------- Init

Init ==
    /\ token \in Tokens
    /\ mainPc = "Entry"
    /\ mainLog = <<>>
    /\ inbox \in Inboxes
    /\ pc = [r \in RunIds |-> "Idle"]
    /\ file_id = [r \in RunIds |-> None]
    /\ file_name = [r \in RunIds |-> <<"file">>]
    /\ temp_file_path = [r \in RunIds |-> None]
    /\ external_link = [r \in RunIds |-> None]
    /\ escaped = [r \in RunIds |-> FALSE]
    /\ log = [r \in RunIds |-> <<>>]
    /\ dirExists \in BOOLEAN
    /\ files = <<>>
    /\ loop = None
    /\ putElapsed = 0
    /\ healthPending = 0

\* ----------------------------------------------------------------- actions

\* A check that takes only an unset variable for a missing token.
TokenMissing_OnlyNone(tok) == tok = None

\* Line 127: `if not TOKEN`.
TokenMissing(tok) == ~Truthy(tok)

\* Lines 147-164: the awaits of main in order, and where main is once the
\* awaited call has returned; after application.start() main sleeps forever.
MainNext(p) ==
    CASE p = "AwaitRunnerSetup" -> "AwaitAppInit"
      [] p = "AwaitAppInit" -> "AwaitSiteStart"
      [] p = "AwaitSiteStart" -> "AwaitAppStart"
      [] p = "AwaitAppStart" -> "Sleeping"

MainAwaits == {"AwaitRunnerSetup", "AwaitAppInit", "AwaitSiteStart",
               "AwaitAppStart"}

\* Lines 153, 155, 160: what main logs once the awaited call has returned.
MainMessages(p) ==
    CASE p = "AwaitRunnerSetup" -> <<>>
      [] p = "AwaitAppInit" -> <<"Starting web server on port ...">>
      [] p = "AwaitSiteStart" -> <<"Starting Telegram bot polling...">>
      [] p = "AwaitAppStart" -> <<"Bot and web server started successfully.">>

\* Line 154 has returned: the liveness listener accepts requests.
Listening == mainPc \in {"AwaitAppStart", "Sleeping"}

\* Line 157 has returned: the application dispatches updates to handle_file.
Dispatching == mainPc = "Sleeping"

\* Lines 125-147: main checks the token; without one it logs and returns,
\* with one it builds the application and the web app and awaits
\* runner.setup().
MainEnter ==
    /\ mainPc = "Entry"
    /\ IF TokenMissing(token)
       THEN /\ mainLog' = <<"TELEGRAM_BOT_TOKEN environment variable not set!">>
            /\ mainPc' = "Returned"
       ELSE /\ mainLog' = <<"Initializing Telegram application...",
                            "Initializing web server...">>
            /\ mainPc' = "AwaitRunnerSetup"
    /\ UNCHANGED <<token, inbox, pc, file_id, file_name, temp_file_path,
                   external_link, escaped, log, dirExists, files, loop,
                   putElapsed, healthPending>>

\* Lines 147-164: the awaited call returns and main goes on to its next
\* await.
MainResumes ==
    /\ mainPc \in MainAwaits
    /\ loop = None
    /\ mainLog' = mainLog \o MainMessages(mainPc)
    /\ mainPc' = MainNext(mainPc)
    /\ UNCHANGED <<token, inbox, pc, file_id, file_name, temp_file_path,
                   external_link, escaped, log, dirExists, files, loop,
                   putElapsed, healthPending>>

\* Lines 147-157 and 176-177: the awaited call raises; nothing in main
\* catches it, asyncio.run re-raises it and the process ends.
MainRaises ==
    /\ mainPc \in MainAwaits
    /\ loop = None
    /\ mainPc' = "Crashed"
    /\ UNCHANGED <<token, mainLog, inbox, pc, file_id, file_name,
                   temp_file_path, external_link, escaped, log, dirExists,
                   files, loop, putElapsed, healthPending>>

\* Lines 51-85: from the invocation of handle_file to its first await.
Start(r) ==
    /\ Dispatching
    /\ pc[r] = "Idle"
    /\ inbox[r] # None
    /\ loop = None
    /\ \E creatable \in BOOLEAN :
         LET ev == inbox[r][1]
             c == Classify(ev)
             made == IF dirExists THEN <<>>
                     ELSE <<[op |-> "makedirs", arg |-> temp_dir,
                             res |-> Outcome(creatable)]>>
         IN  IF ~dirExists /\ ~creatable
             THEN \* lines 60-62: reply and return
                  /\ pc' = [pc EXCEPT ![r] = "AwaitStorageReply"]
                  /\ log' = [log EXCEPT ![r] = @ \o made]
                  /\ UNCHANGED <<file_id, file_name, dirExists>>
             ELSE /\ dirExists' = TRUE
                  /\ log' = [log EXCEPT ![r] = @ \o made]
                  /\ IF c.kind = "skip"
                     THEN \* lines 76-79
                          /\ pc' = [pc EXCEPT ![r] = "Done"]
                          /\ UNCHANGED <<file_id, file_name>>
                     ELSE /\ file_id' = [file_id EXCEPT ![r] = Some(c.file_id)]
                          /\ file_name' = [file_name EXCEPT ![r] = c.file_name]
                          /\ pc' = [pc EXCEPT ![r] =
                                      NextAfterClassify(c.file_id)]
    /\ UNCHANGED <<mainVars, inbox, temp_file_path, external_link, escaped, files, loop,
                   putElapsed, healthPending>>

\* A handler without the `return` of line 63: it goes on to acknowledge.
StorageReplyReturns_NoReturn(r) ==
    /\ pc[r] = "AwaitStorageReply"
    /\ loop = None
    /\ \E ok \in BOOLEAN :
         /\ log' = [log EXCEPT ![r] = Append(@, ReplyEntry(MsgStorage, ok))]
         /\ escaped' = [escaped EXCEPT ![r] = ~ok]
         /\ pc' = [pc EXCEPT ![r] = IF ok THEN "AwaitAck" ELSE "Done"]
    /\ UNCHANGED <<mainVars, inbox, file_id, file_name, temp_file_path,
                   external_link, dirExists, files, loop, putElapsed,
                   healthPending>>

\* Line 62: the "Server error" reply returns or raises; then `return`.
StorageReplyReturns(r) ==
    /\ pc[r] = "AwaitStorageReply"
    /\ loop = None
    /\ \E ok \in BOOLEAN :
         /\ log' = [log EXCEPT ![r] = Append(@, ReplyEntry(MsgStorage, ok))]
         /\ escaped' = [escaped EXCEPT ![r] = ~ok]
    /\ pc' = [pc EXCEPT ![r] = "Done"]
    /\ UNCHANGED <<mainVars, inbox, file_id, file_name, temp_file_path, external_link,
                   dirExists, files, loop, putElapsed, healthPending>>

\* Line 82: the "Could not get file information." reply; then `return`.
NoInfoReplyReturns(r) ==
    /\ pc[r] = "AwaitNoInfoReply"
    /\ loop = None
    /\ \E ok \in BOOLEAN :
         /\ log' = [log EXCEPT ![r] = Append(@, ReplyEntry(MsgNoInfo, ok))]
         /\ escaped' = [escaped EXCEPT ![r] = ~ok]
    /\ pc' = [pc EXCEPT ![r] = "Done"]
    /\ UNCHANGED <<mainVars, inbox, file_id, file_name, temp_file_path, external_link,
                   dirExists, files, loop, putElapsed, healthPending>>

\* Lines 85-88: the acknowledgment returns and get_file is awaited; the
\* await of line 85 is outside the try, so if it raises the run ends there.
AckReturns(r) ==
    /\ pc[r] = "AwaitAck"
    /\ loop = None
    /\ \E ok \in BOOLEAN :
         /\ log' = [log EXCEPT ![r] = Append(@, ReplyEntry(MsgProcessing, ok))]
         /\ escaped' = [escaped EXCEPT ![r] = ~ok]
         /\ pc' = [pc EXCEPT ![r] = IF ok THEN "AwaitGetFile" ELSE "Done"]
    /\ UNCHANGED <<mainVars, inbox, file_id, file_name, temp_file_path, external_link,
                   dirExists, files, loop, putElapsed, healthPending>>

\* Lines 88-93: get_file returns and the download is awaited, or get_file
\* raises and the except clause replies (lines 106-108).
GetFileReturns(r) ==
    /\ pc[r] = "AwaitGetFile"
    /\ loop = None
    /\ \E ok \in BOOLEAN :
         /\ log' = [log EXCEPT ![r] =
                      Append(@, [op |-> "get_file", arg |-> <<file_id[r][1]>>,
                                 res |-> Outcome(ok)])]
         /\ pc' = [pc EXCEPT ![r] = NextAfterGetFile(ok)]
         /\ temp_file_path' =
              [temp_file_path EXCEPT ![r] =
                 IF ok THEN Some(StagedPath(file_name[r])) ELSE @]
    /\ UNCHANGED <<mainVars, inbox, file_id, file_name, external_link, escaped,
                   dirExists, files, loop, putElapsed, healthPending>>

\* Line 93, inside the awaited download_to_drive: the library writes the
\* attachment's bytes at the staged path.  The call is a collaborator's, so
\* the write may happen at any point before it returns.
DownloadWrites(r) ==
    /\ pc[r] = "AwaitDownload"
    /\ loop = None
    /\ files' = WriteFile(files, temp_file_path[r][1],
                          [by |-> r, bytes |-> file_id[r][1]])
    /\ pc' = [pc EXCEPT ![r] = "AwaitDownloadReturn"]
    /\ UNCHANGED <<mainVars, inbox, file_id, file_name, temp_file_path, external_link,
                   escaped, log, dirExists, loop, putElapsed, healthPending>>

\* The entry of the log for the await of line 93.
DownloadEntry(r, ok) ==
    [op |-> "download", arg |-> temp_file_path[r][1], res |-> Outcome(ok)]

\* Lines 93-98 and 30-36: download_to_drive returns, and the handler calls
\* upload_to_external_service at once: open() of the staged file, which
\* fails if the file is gone (caught by line 44, so line 104 replies), then
\* the blocking requests.put.
DownloadReturns(r) ==
    /\ pc[r] = "AwaitDownloadReturn"
    /\ loop = None
    /\ log' = [log EXCEPT ![r] =
                 IF Exists(temp_file_path[r][1])
                 THEN Append(@, DownloadEntry(r, TRUE))
                 ELSE @ \o <<DownloadEntry(r, TRUE),
                             [op |-> "open", arg |-> temp_file_path[r][1],
                              res |-> "raise"]>>]
    /\ IF Exists(temp_file_path[r][1])
       THEN /\ pc' = [pc EXCEPT ![r] = "Uploading"]
            /\ loop' = Some(r)
       ELSE /\ pc' = [pc EXCEPT ![r] = "AwaitUploadReply"]
            /\ loop' = loop
    /\ putElapsed' = 0
    /\ UNCHANGED <<mainVars, inbox, file_id, file_name, temp_file_path, external_link,
                   escaped, dirExists, files, healthPending>>

\* A handler that swallows the exception of the download and goes on to
\* report the upload.
DownloadRaises_Ignored(r) ==
    /\ pc[r] \in {"AwaitDownload", "AwaitDownloadReturn"}
    /\ loop = None
    /\ log' = [log EXCEPT ![r] = Append(@, DownloadEntry(r, FALSE))]
    /\ pc' = [pc EXCEPT ![r] = "AwaitUploadReply"]
    /\ UNCHANGED <<mainVars, inbox, file_id, file_name, temp_file_path,
                   external_link, escaped, dirExists, files, loop, putElapsed,
                   healthPending>>

\* Lines 93 and 106-108: download_to_drive raises, before or after it wrote
\* anything; the except clause replies.
DownloadRaises(r) ==
    /\ pc[r] \in {"AwaitDownload", "AwaitDownloadReturn"}
    /\ loop = None
    /\ log' = [log EXCEPT ![r] = Append(@, DownloadEntry(r, FALSE))]
    /\ pc' = [pc EXCEPT ![r] = "AwaitErrReply"]
    /\ UNCHANGED <<mainVars, inbox, file_id, file_name, temp_file_path, external_link,
                   escaped, dirExists, files, loop, putElapsed, healthPending>>

\* Time passes while requests.put blocks; at PutTimeout the PUT is over.
PutTick ==
    /\ loop # None
    /\ putElapsed < PutTimeout
    /\ putElapsed' = Min(putElapsed + ClockStep, PutTimeout)
    /\ UNCHANGED <<mainVars, inbox, pc, file_id, file_name, temp_file_path,
                   external_link, escaped, log, dirExists, files, loop,
                   healthPending>>

\* The ways requests.put / raise_for_status / the read of the file can end.
PutOutcomes == {"ok", "bad_status", "network", "timeout", "io_error"}

\* A requests.put without timeout=60: a sink that has not answered by then
\* never does, and the call never returns.
PutReturns_NoTimeout(r) ==
    /\ pc[r] = "Uploading"
    /\ loop = Some(r)
    /\ putElapsed < PutTimeout
    /\ \E outcome \in PutOutcomes \ {"timeout"}, body \in Bodies :
         /\ outcome # "ok" => body = <<>>
         /\ external_link' =
              [external_link EXCEPT ![r] = UploadReturn(outcome, body)]
         /\ log' = [log EXCEPT ![r] =
                      Append(@, [op |-> "put",
                                 arg |-> <<files[temp_file_path[r][1]].bytes>>,
                                 res |-> outcome, body |-> body])]
    /\ loop' = None
    /\ putElapsed' = 0
    /\ pc' = [pc EXCEPT ![r] = "AwaitUploadReply"]
    /\ UNCHANGED <<mainVars, inbox, file_id, file_name, temp_file_path,
                   escaped, dirExists, files, healthPending>>

\* Lines 32-46 and 98-104: the PUT ends, upload_to_external_service returns
\* the link or None, and the handler awaits the reply that reports it.
PutReturns(r) ==
    /\ pc[r] = "Uploading"
    /\ loop = Some(r)
    /\ \E outcome \in PutOutcomes, body \in Bodies :
         /\ (outcome = "timeout") = (putElapsed = PutTimeout)
         /\ outcome # "ok" => body = <<>>
         /\ external_link' =
              [external_link EXCEPT ![r] = UploadReturn(outcome, body)]
         /\ log' = [log EXCEPT ![r] =
                      Append(@, [op |-> "put",
                                 arg |-> <<files[temp_file_path[r][1]].bytes>>,
                                 res |-> outcome, body |-> body])]
    /\ loop' = None
    /\ putElapsed' = 0
    /\ pc' = [pc EXCEPT ![r] = "AwaitUploadReply"]
    /\ UNCHANGED <<mainVars, inbox, file_id, file_name, temp_file_path, escaped,
                   dirExists, files, healthPending>>

\* A handler that removes the staged file before it reports the upload.
UploadReplyReturns_DeleteFirst(r) ==
    /\ pc[r] = "AwaitUploadReply"
    /\ loop = None
    /\ \E ok \in BOOLEAN, rmOk \in BOOLEAN :
         /\ log' = [log EXCEPT ![r] =
                      Append(LogAfterCleanup(@, r, rmOk),
                             ReplyEntry(UploadReplyText(external_link[r]), ok))]
         /\ files' = FilesAfterCleanup(r, rmOk)
         /\ pc' = [pc EXCEPT ![r] = IF ok THEN "Done" ELSE "AwaitErrReply"]
    /\ UNCHANGED <<mainVars, inbox, file_id, file_name, temp_file_path,
                   external_link, escaped, dirExists, loop, putElapsed,
                   healthPending>>

\* Lines 101-116: the reply of line 102 or 104 returns and the finally block
\* runs, or it raises and the except clause replies (lines 106-108).
UploadReplyReturns(r) ==
    /\ pc[r] = "AwaitUploadReply"
    /\ loop = None
    /\ \E ok \in BOOLEAN, rmOk \in BOOLEAN :
         LET lg == Append(log[r],
                          ReplyEntry(UploadReplyText(external_link[r]), ok))
         IN  IF ok
             THEN /\ log' = [log EXCEPT ![r] = LogAfterCleanup(lg, r, rmOk)]
                  /\ files' = FilesAfterCleanup(r, rmOk)
                  /\ pc' = [pc EXCEPT ![r] = "Done"]
             ELSE /\ log' = [log EXCEPT ![r] = lg]
                  /\ files' = files
                  /\ pc' = [pc EXCEPT ![r] = "AwaitErrReply"]
    /\ UNCHANGED <<mainVars, inbox, file_id, file_name, temp_file_path, external_link,
                   escaped, dirExists, loop, putElapsed, healthPending>>

\* Lines 108-116: the reply of the except clause returns or raises; either
\* way the finally block runs, and an exception of line 108 leaves the
\* handler.
ErrReplyReturns(r) ==
    /\ pc[r] = "AwaitErrReply"
    /\ loop = None
    /\ \E ok \in BOOLEAN, rmOk \in BOOLEAN :
         /\ log' = [log EXCEPT ![r] =
                      LogAfterCleanup(Append(@, ReplyEntry(MsgError, ok)),
                                      r, rmOk)]
         /\ files' = FilesAfterCleanup(r, rmOk)
         /\ escaped' = [escaped EXCEPT ![r] = ~ok]
    /\ pc' = [pc EXCEPT ![r] = "Done"]
    /\ UNCHANGED <<mainVars, inbox, file_id, file_name, temp_file_path, external_link,
                   dirExists, loop, putElapsed, healthPending>>

\* A GET / reaches the listener started at line 154.
HealthArrive ==
    /\ Listening
    /\ healthPending < MaxHealth
    /\ healthPending' = healthPending + 1
    /\ UNCHANGED <<mainVars, inbox, pc, file_id, file_name, temp_file_path,
                   external_link, escaped, log, dirExists, files, loop,
                   putElapsed>>

\* Lines 119-122: health_check answers "OK".  It is a coroutine of the same
\* event loop, so it runs only when no blocking call holds the thread.
HealthRespond ==
    /\ Listening
    /\ healthPending > 0
    /\ loop = None
    /\ healthPending' = healthPending - 1
    /\ UNCHANGED <<mainVars, inbox, pc, file_id, file_name, temp_file_path,
                   external_link, escaped, log, dirExists, files, loop,
                   putElapsed>>

Next ==
    \/ MainEnter
    \/ MainResumes
    \/ MainRaises
    \/ \E r \in RunIds : Start(r)
    \/ \E r \in RunIds : StorageReplyReturns(r)
    \/ \E r \in RunIds : NoInfoReplyReturns(r)
    \/ \E r \in RunIds : AckReturns(r)
    \/ \E r \in RunIds : GetFileReturns(r)
    \/ \E r \in RunIds : DownloadWrites(r)
    \/ \E r \in RunIds : DownloadReturns(r)
    \/ \E r \in RunIds : DownloadRaises(r)
    \/ PutTick
    \/ \E r \in RunIds : PutReturns(r)
    \/ \E r \in RunIds : UploadReplyReturns(r)
    \/ \E r \in RunIds : ErrReplyReturns(r)
    \/ HealthArrive
    \/ HealthRespond

Spec == Init /\ [][Next]_vars

\* One step of run r: the call it awaits returns or raises (and the
\* blocking PUT ends), and the handler runs to its next await.
RunStep(r) ==
    \/ Start(r)
    \/ StorageReplyReturns(r)
    \/ NoInfoReplyReturns(r)
    \/ AckReturns(r)
    \/ GetFileReturns(r)
    \/ DownloadWrites(r)
    \/ DownloadReturns(r)
    \/ DownloadRaises(r)
    \/ PutReturns(r)
    \/ UploadReplyReturns(r)
    \/ ErrReplyReturns(r)

\* The updates of the fair specification: one event with at most one
\* attachment, or two documents named "a" together.
FairInboxes ==
    {b \in Inboxes :
        /\ AttachmentCount(b[1][1]) <= 1
        /\ b[2] # None => b[2] = Some(Doc("f2", <<"a">>))}

\* The process starts with a token; the two documents together find the
\* staging directory in place.
FairInit ==
    /\ Init /\ inbox \in FairInboxes /\ token = Some(<<"t">>)
    /\ inbox[2] # None => dirExists

\* The event loop resumes every coroutine whose awaited call has ended, and
\* every call of a run on the platform or the sink ends.
FairSpec ==
    /\ FairInit
    /\ [][Next]_vars
    /\ \A r \in RunIds : WF_vars(RunStep(r))

\* ------------------------------------------------------- reading the logs

Done(r) == pc[r] = "Done"

\* The positions of run r's log that hold a call of kind op.
Calls(r, op) == {i \in DOMAIN log[r] : log[r][i].op = op}

\* The positions of run r's log that hold a reply with the given text.
Replies(r, text) == {i \in Calls(r, "reply") : log[r][i].arg = text}

Raised(r, op) == \E i \in Calls(r, op) : log[r][i].res = "raise"

\* os.makedirs raised: no staging directory for run r.
StorageFailed(r) == Raised(r, "makedirs")

\* os.remove raised in run r's finally block.
RemoveFailed(r) == Raised(r, "remove")

\* The last reply run r issued (run r has issued one).
LastReply(r) ==
    LET last == CHOOSE i \in Calls(r, "reply") :
                    \A j \in Calls(r, "reply") : j <= i
    IN  log[r][last]

\* The identifier the platform supplied for the event's only attachment.
SoleIdentifier(ev) ==
    IF ev.document # None THEN ev.document[1].file_id
    ELSE IF ev.photo # <<>> THEN ev.photo[Len(ev.photo)].file_id
    ELSE ev.video[1].file_id

\* Run r is the only run that staged at its path.
StagedAlone(r) ==
    \A q \in RunIds \ {r} : temp_file_path[q] # temp_file_path[r]

\* ------------------------------------------------------------------ claims

\* C1: once a run that computed its staged path is Done, on whichever exit
\* path (upload succeeded or failed, the download raised, a reply raised),
\* no file exists at the staged path unless os.remove itself failed; the
\* run is taken alone, no other run having staged at the same path.
C1_CleanupOnEveryExit ==
    \A r \in RunIds :
        (Done(r) /\ temp_file_path[r] # None /\ StagedAlone(r)
           /\ ~RemoveFailed(r))
        => ~Exists(temp_file_path[r][1])

\* A run that wrote its file, had a reply raise and removed the file.
C1_Witness ==
    \E r \in RunIds :
        /\ Done(r) /\ StagedAlone(r)
        /\ Raised(r, "reply")
        /\ \E i \in Calls(r, "remove") : log[r][i].res = "ok"

\* C2: while a run is in its download or upload step, a health request
\* that is waiting can be answered.
C2_HealthNeverBlocked ==
    \A r \in RunIds :
        (pc[r] \in {"AwaitDownload", "AwaitDownloadReturn", "Uploading"}
           /\ healthPending > 0)
        => ENABLED HealthRespond

\* C3: a run for an event without document, photo and video makes no call
\* at all: no reply, and no creation of or write to the staging area.
C3_NoAttachmentNoEffect ==
    \A r \in RunIds :
        (inbox[r] # None /\ AttachmentCount(inbox[r][1]) = 0)
        => log[r] = <<>>

\* C4 as claimed: every finished run for an event with exactly one
\* attachment issued exactly one acknowledgment.
C4_AckForEveryAttachment ==
    \A r \in RunIds :
        (Done(r) /\ inbox[r] # None /\ AttachmentCount(inbox[r][1]) = 1)
        => Cardinality(Replies(r, MsgProcessing)) = 1

\* Run r has begun retrieval: get_file is awaited or has been.
Retrieving(r) == pc[r] = "AwaitGetFile" \/ Calls(r, "get_file") # {}

\* C4, amended: for an event with exactly one attachment whose identifier
\* is not empty, a run that has a staging directory issues exactly one
\* acknowledgment, and issues it before it begins get_file; a run without a
\* staging directory issues none.
C4_AckOnceBeforeRetrieval ==
    \A r \in RunIds :
        (inbox[r] # None /\ AttachmentCount(inbox[r][1]) = 1
           /\ SoleIdentifier(inbox[r][1]) # "")
        => /\ Cardinality(Replies(r, MsgProcessing)) <= 1
           /\ (Retrieving(r) \/ (Done(r) /\ ~StorageFailed(r)))
                => Cardinality(Replies(r, MsgProcessing)) = 1
           /\ StorageFailed(r) => Replies(r, MsgProcessing) = {}
           /\ \A i \in Calls(r, "get_file") :
                \E j \in Replies(r, MsgProcessing) : j < i

\* A finished run that acknowledged a lone attachment and then retrieved it.
C4_Witness ==
    \E r \in RunIds :
        /\ Done(r) /\ inbox[r] # None /\ AttachmentCount(inbox[r][1]) = 1
        /\ Replies(r, MsgProcessing) # {}
        /\ Calls(r, "get_file") # {}

\* C5: a run whose acknowledgment failed to send still goes on to retrieve.
C5_AckFailureNonFatal ==
    \A r \in RunIds :
        (Done(r) /\ \E i \in Replies(r, MsgProcessing) : log[r][i].res = "raise")
        => Calls(r, "get_file") # {}

\* The upload of run r failed: open() of the staged file raised, or the PUT
\* ended in a network error, a timeout, a bad status or an I/O error.
UploadFailures(r) ==
    {i \in Calls(r, "open") : log[r][i].res = "raise"}
    \cup {i \in Calls(r, "put") : log[r][i].res # "ok"}

\* The PUTs of run r that the sink answered with a success status.
UploadSuccesses(r) == {i \in Calls(r, "put") : log[r][i].res = "ok"}

\* t is s without its leading and trailing whitespace.
IsTrimOf(t, s) ==
    \E i \in 1..(Len(s) + 1), j \in 0..Len(s) :
        /\ t = SubSeq(s, i, j)
        /\ \A k \in 1..(i - 1) : s[k] \in Whitespace
        /\ \A k \in (j + 1)..Len(s) : s[k] \in Whitespace
        /\ t # <<>> => (t[1] \notin Whitespace /\ t[Len(t)] \notin Whitespace)

\* In this step run r ends, and unless os.remove failed it leaves no file at
\* its staged path.
EndsWithoutFile(r) ==
    (~Done(r) /\ pc'[r] = "Done" /\ temp_file_path[r] # None)
    => \/ temp_file_path[r][1] \notin DOMAIN files'
       \/ \E i \in DOMAIN log'[r] :
            log'[r][i].op = "remove" /\ log'[r][i].res = "raise"

\* C6 as claimed: after every upload failure the last reply of the finished
\* run is "Sorry, the upload failed." and the staged file is gone.
C6_UploadFailureFinalReply ==
    \A r \in RunIds :
        (Done(r) /\ UploadFailures(r) # {})
        => /\ LastReply(r).arg = MsgUploadFailed
           /\ ~Exists(temp_file_path[r][1])

\* The reply issued right after position i of run r's log is `text`, and a
\* finished run has issued it.
RepliedNext(r, i, text) ==
    /\ Done(r) => i < Len(log[r])
    /\ i < Len(log[r]) =>
         /\ log[r][i + 1].op = "reply"
         /\ log[r][i + 1].arg = text
         /\ log[r][i + 1].res = "ok" => LastReply(r) = log[r][i + 1]

\* C6, amended: after every upload failure the reply the run issues for the
\* upload is exactly "Sorry, the upload failed.", and it is the run's last
\* reply unless sending it raises; when the run ends no file is left at the
\* staged path unless os.remove failed.
C6_UploadFailureReply ==
    /\ [](\A r \in RunIds : \A i \in UploadFailures(r) :
            RepliedNext(r, i, MsgUploadFailed))
    /\ [][\A r \in RunIds : UploadFailures(r) # {} => EndsWithoutFile(r)]_vars

\* A finished run whose PUT timed out, which replied and removed its file.
C6_Witness ==
    \E r \in RunIds :
        /\ Done(r)
        /\ \E i \in Calls(r, "put") : log[r][i].res = "timeout"
        /\ LastReply(r).arg = MsgUploadFailed
        /\ \E i \in Calls(r, "remove") : log[r][i].res = "ok"
        /\ ~Exists(temp_file_path[r][1])

\* C7 as claimed: after a PUT answered with a success status, whatever the
\* body, the last reply of the finished run is "Download link:\n" followed
\* by the trimmed body, and the staged file is gone.
C7_SuccessFinalReply ==
    \A r \in RunIds : \A i \in UploadSuccesses(r) :
        Done(r) =>
          /\ \E t \in Bodies :
               /\ IsTrimOf(t, log[r][i].body)
               /\ LastReply(r).arg = LinkPrefix \o t
          /\ ~Exists(temp_file_path[r][1])

\* C7, amended: after a PUT answered with a success status and a body that
\* is not empty once trimmed, the reply the run issues for the upload is
\* "Download link:\n" followed by the trimmed body (for a body that trims to
\* nothing it is "Sorry, the upload failed."), and it is the run's last
\* reply unless sending it raises; when the run ends no file is left at the
\* staged path unless os.remove failed.
C7_SuccessReply ==
    /\ [](\A r \in RunIds : \A i \in UploadSuccesses(r) :
            \E t \in Bodies :
                /\ IsTrimOf(t, log[r][i].body)
                /\ RepliedNext(r, i, IF t # <<>> THEN LinkPrefix \o t
                                     ELSE MsgUploadFailed))
    /\ [][\A r \in RunIds : UploadSuccesses(r) # {} => EndsWithoutFile(r)]_vars

\* A finished run whose sink answered " u": the link "u" was replied and
\* the file removed.
C7_Witness ==
    \E r \in RunIds :
        /\ Done(r)
        /\ \E i \in UploadSuccesses(r) : log[r][i].body = <<" ", "u">>
        /\ LastReply(r).arg = LinkPrefix \o <<"u">>
        /\ LastReply(r).res = "ok"
        /\ ~Exists(temp_file_path[r][1])

\* The replies of run r that report a failure.
FailureReplies(r) ==
    Replies(r, MsgStorage) \cup Replies(r, MsgNoInfo)
    \cup Replies(r, MsgUploadFailed) \cup Replies(r, MsgError)

\* Something failed in run r: a call raised (the deletion of the finally
\* block aside, which is only logged), the upload failed, or the platform
\* supplied no identifier.
RunFailed(r) ==
    \/ \E i \in DOMAIN log[r] :
         log[r][i].op # "remove" /\ log[r][i].res # "ok"
    \/ file_id[r] = Some("")

\* C8: a finished run in which something failed issued exactly one reply
\* that reports a failure.
C8_ExactlyOneFailureReply ==
    \A r \in RunIds :
        (Done(r) /\ RunFailed(r)) => Cardinality(FailureReplies(r)) = 1

\* C9: a run calls get_file, the download and the PUT at most once each,
\* and a failed get_file or a failed upload is followed at once by the
\* reply that reports it, never by another attempt.
C9_NoRetries ==
    \A r \in RunIds :
        /\ Cardinality(Calls(r, "get_file")) <= 1
        /\ Cardinality(Calls(r, "download")) <= 1
        /\ Cardinality(Calls(r, "put")) <= 1
        /\ \A i \in Calls(r, "get_file") :
             log[r][i].res = "raise" =>
               /\ pc[r] \in {"AwaitErrReply", "Done"}
               /\ i < Len(log[r]) => log[r][i + 1].op = "reply"
        /\ \A i \in UploadFailures(r) :
             /\ pc[r] \in {"AwaitUploadReply", "AwaitErrReply", "Done"}
             /\ i < Len(log[r]) => log[r][i + 1].op = "reply"

\* A finished run whose get_file raised, and one whose PUT failed.
C9_Witness ==
    /\ \E r \in RunIds : Done(r) /\ Raised(r, "get_file")
                         /\ Replies(r, MsgError) # {}
    /\ \E r \in RunIds : Done(r) /\ UploadFailures(r) # {}
                         /\ Calls(r, "put") # {}

\* Run q's download has written its bytes at its staged path.
HasStaged(q) ==
    \/ pc[q] \in {"AwaitDownloadReturn", "Uploading", "AwaitUploadReply"}
    \/ \E i \in Calls(q, "download") : log[q][i].res = "ok"

\* C10: a file at a staged path is removed only by the cleanup of the run
\* that wrote it, and only when no other run that staged a file at that
\* path is still in progress.
C10_ExclusiveOwnership ==
    [][\A p \in DOMAIN files :
         p \notin DOMAIN files' =>
           \E r \in RunIds :
             /\ ~Done(r) /\ pc'[r] = "Done"
             /\ files[p].by = r
             /\ \A q \in RunIds \ {r} :
                  (temp_file_path[q] = Some(p) /\ HasStaged(q)) => Done(q)]_vars

\* C11: without a token (the variable unset or empty) main logs the
\* condition and returns: it never reaches an await, the listener and the
\* application are never started, no health request is received and no
\* handler runs.
C11_NoTokenNoStart ==
    (token = None \/ token = Some(<<>>))
    => /\ mainPc \in {"Entry", "Returned"}
       /\ mainPc = "Returned" =>
            mainLog = <<"TELEGRAM_BOT_TOKEN environment variable not set!">>
       /\ ~Listening /\ ~Dispatching
       /\ healthPending = 0
       /\ \A r \in RunIds : pc[r] = "Idle" /\ log[r] = <<>>

\* main has returned for want of a token.
C11_Witness == token = None /\ mainPc = "Returned"

\* Run r has classified its event (lines 66-79 have run).
Classified(r) ==
    inbox[r] # None /\ pc[r] \notin {"Idle", "AwaitStorageReply"}
    /\ ~StorageFailed(r)

\* The attachment has a stated filename: one that is neither absent nor "".
HasStatedName(a) == a.file_name # None /\ a.file_name # Some(<<>>)

\* Run r relays the attachment `id` under the display name `name`: these are
\* its locals, and it asks get_file for no other identifier.
Relays(r, id, name) ==
    /\ file_id[r] = Some(id)
    /\ file_name[r] = name
    /\ \A i \in Calls(r, "get_file") : log[r][i].arg = <<id>>

\* C12: a run that has classified its event relays the document if there is
\* one (under its stated filename, else "document"); otherwise the last
\* resolution of the photo, as "photo_<id>.jpg"; otherwise the video (under
\* its stated filename, else "video_<id>.mp4"); otherwise nothing, and it
\* ends in silence.  Two runs given the same event classify it alike.
C12_ClassificationPriority ==
    /\ \A r \in RunIds :
         Classified(r) =>
           LET ev == inbox[r][1]
               d == ev.document[1]
               ph == ev.photo[Len(ev.photo)]
               v == ev.video[1]
           IN  /\ ev.document # None =>
                    Relays(r, d.file_id,
                           IF HasStatedName(d) THEN d.file_name[1]
                           ELSE <<"document">>)
               /\ (ev.document = None /\ ev.photo # <<>>) =>
                    Relays(r, ph.file_id, <<"photo_", ph.file_id, ".jpg">>)
               /\ (ev.document = None /\ ev.photo = <<>> /\ ev.video # None) =>
                    Relays(r, v.file_id,
                           IF HasStatedName(v) THEN v.file_name[1]
                           ELSE <<"video_", v.file_id, ".mp4">>)
               /\ AttachmentCount(ev) = 0 =>
                    /\ Done(r) /\ file_id[r] = None
                    /\ Calls(r, "reply") = {} /\ Calls(r, "get_file") = {}
    /\ \A r, q \in RunIds :
         (Classified(r) /\ Classified(q) /\ inbox[r] = inbox[q])
         => (file_id[r] = file_id[q] /\ file_name[r] = file_name[q])

\* A run given a document, a two-resolution photo and a video together asked
\* get_file for the document.
C12_Witness ==
    \E r \in RunIds :
        /\ Classified(r) /\ Calls(r, "get_file") # {}
        /\ AttachmentCount(inbox[r][1]) = 3
        /\ Len(inbox[r][1].photo) = 2
        /\ file_id[r] = Some(inbox[r][1].document[1].file_id)

\* C13: a run that could not create the staging directory replies exactly
\* "Server error: Could not create temporary storage." and ends: its calls
\* are the failed makedirs and that one reply, nothing else.
C13_StorageFailureEndsRun ==
    \A r \in RunIds :
        StorageFailed(r) =>
          /\ pc[r] \in {"AwaitStorageReply", "Done"}
          /\ Done(r) => Len(log[r]) = 2
          /\ Len(log[r]) <= 2
          /\ log[r][1].op = "makedirs"
          /\ Len(log[r]) = 2 =>
               /\ log[r][2].op = "reply"
               /\ log[r][2].arg =
                    <<"Server error: Could not create temporary storage.">>

\* A finished run for a document that had no staging directory.
C13_Witness ==
    \E r \in RunIds :
        /\ Done(r) /\ StorageFailed(r)
        /\ inbox[r][1].document # None
        /\ Replies(r, MsgStorage) # {}

\* The event carries an attachment, and the one the handler looks at (the
\* document, else the photo's last resolution, else the video) has no
\* identifier.
MissingIdentifier(r) ==
    /\ inbox[r] # None /\ pc[r] # "Idle"
    /\ AttachmentCount(inbox[r][1]) > 0
    /\ SoleIdentifier(inbox[r][1]) = ""

\* The calls of run r, the creation of the staging directory aside.
CallsAfterStorage(r) ==
    IF log[r] # <<>> /\ log[r][1].op = "makedirs" THEN Tail(log[r])
    ELSE log[r]

\* Run r replied "Could not get file information." and did nothing else, or
\* is about to.
OnlyNoInfoReply(r) ==
    /\ pc[r] \in {"AwaitNoInfoReply", "Done"}
    /\ Done(r) => Len(CallsAfterStorage(r)) = 1
    /\ Len(CallsAfterStorage(r)) <= 1
    /\ \A i \in DOMAIN CallsAfterStorage(r) :
         /\ CallsAfterStorage(r)[i].op = "reply"
         /\ CallsAfterStorage(r)[i].arg = <<"Could not get file information.">>

RetrievalFailures(r) ==
    {i \in Calls(r, "get_file") \cup Calls(r, "download") :
        log[r][i].res = "raise"}

\* The replies of run r that give a download link.
LinkReplies(r) ==
    {i \in Calls(r, "reply") : SubSeq(log[r][i].arg, 1, 1) = LinkPrefix}

\* C15: after get_file or the download raised, the run's next call is the
\* reply "An error occurred while processing your file."; it never opens
\* the staged file nor issues the PUT, never replies a link or "Sorry, the
\* upload failed."; and when it ends no file is left at the staged path
\* unless os.remove failed.
C15_RetrievalFailureReply ==
    /\ [](\A r \in RunIds : \A i \in RetrievalFailures(r) :
            /\ RepliedNext(r, i,
                  <<"An error occurred while processing your file.">>)
            /\ Calls(r, "open") = {} /\ Calls(r, "put") = {}
            /\ LinkReplies(r) = {}
            /\ Replies(r, MsgUploadFailed) = {})
    /\ [][\A r \in RunIds :
            RetrievalFailures(r) # {} => EndsWithoutFile(r)]_vars

\* A finished run whose download raised after writing: it replied the
\* generic error and removed the partial file.
C15_Witness ==
    \E r \in RunIds :
        /\ Done(r) /\ Raised(r, "download")
        /\ Replies(r, MsgError) # {}
        /\ \E i \in Calls(r, "remove") : log[r][i].res = "ok"

\* C16: no exception leaves handle_file, whichever calls fail.
C16_NoExceptionEscapes ==
    \A r \in RunIds : ~escaped[r]

\* The path names a direct child of the staging directory: temp_dir, one
\* separator, and one component that is neither "." nor "..".
DirectChild(path) ==
    LET n == Len(temp_dir)
        rest == SubSeq(path, n + 2, Len(path))
    IN  /\ Len(path) > n + 1
        /\ SubSeq(path, 1, n) = temp_dir
        /\ path[n + 1] = "/"
        /\ \A i \in DOMAIN rest : rest[i] # "/"
        /\ rest \notin {<<".">>, <<"..">>}

\* C17: the path a run stages at, downloads to and deletes is a direct
\* child of the staging directory, whatever the display name.
C17_StagedInsideDirectory ==
    \A r \in RunIds :
        /\ temp_file_path[r] # None => DirectChild(temp_file_path[r][1])
        /\ \A i \in Calls(r, "download") \cup Calls(r, "remove") :
             DirectChild(log[r][i].arg)

\* The acknowledgment of run r was sent: the run is inside the try block.
Acknowledged(r) ==
    \E i \in Replies(r, MsgProcessing) : log[r][i].res = "ok"

\* If run r ends in this step, the finally block has run in it: a file at
\* the staged path was removed, or os.remove raised and was logged; with no
\* such file nothing is removed.
EndsThroughCleanup(r) ==
    (~Done(r) /\ pc'[r] = "Done") =>
       IF temp_file_path[r] # None /\ temp_file_path[r][1] \in DOMAIN files
       THEN /\ log'[r][Len(log'[r])].op = "remove"
            /\ log'[r][Len(log'[r])].arg = temp_file_path[r][1]
            /\ \/ log'[r][Len(log'[r])].res = "raise"
               \/ temp_file_path[r][1] \notin DOMAIN files'
       ELSE files' = files

\* C18: every run that has started eventually is Done, and a run that got
\* past the acknowledgment ends only through the finally block.
C18_EveryRunTerminates ==
    /\ \A r \in RunIds : (pc[r] # "Idle") ~> Done(r)
    /\ [][\A r \in RunIds : Acknowledged(r) => EndsThroughCleanup(r)]_vars

\* A finished run whose PUT took the whole 60 units and timed out.
C18_Witness ==
    \E r \in RunIds :
        /\ Done(r) /\ Acknowledged(r)
        /\ \E i \in Calls(r, "put") : log[r][i].res = "timeout"

\* Run r's upload found no file at its staged path: open() raised.
UploadSawMissing(r) ==
    \E i \in Calls(r, "open") : log[r][i].res = "raise"

\* Run r's PUT sent bytes other than those of the attachment it downloaded.
UploadSentForeign(r) ==
    \E i \in Calls(r, "put") : log[r][i].arg # <<file_id[r][1]>>

\* Another run computed the staged path of run r from the same display name.
Collides(r) ==
    \E q \in RunIds \ {r} :
        /\ temp_file_path[q] # None
        /\ temp_file_path[q] = temp_file_path[r]
        /\ file_name[q] = file_name[r]

UploadReplies(r) == LinkReplies(r) \cup Replies(r, MsgUploadFailed)

\* The place of a call in the order of lines 56-116.
Rank(e) ==
    CASE e.op = "makedirs" -> 0
      [] e.op = "reply" /\ e.arg \in {MsgStorage, MsgNoInfo, MsgProcessing} -> 1
      [] e.op = "get_file" -> 2
      [] e.op = "download" -> 3
      [] e.op \in {"open", "put"} -> 4
      [] e.op = "reply" /\ e.arg = MsgError -> 6
      [] e.op = "reply" -> 5
      [] e.op = "remove" -> 7

\* The calls of run r were issued in the order of the code, none twice.
StepsInOrder(r) ==
    \A i \in 2..Len(log[r]) : Rank(log[r][i - 1]) < Rank(log[r][i])

\* The call before the i-th of run r was of kind op and returned.
AfterOk(r, i, op) ==
    i > 1 /\ log[r][i - 1].op = op /\ log[r][i - 1].res = "ok"

\* get_file follows the acknowledgment that returned, the download follows
\* get_file that returned, and the staged file is opened or put only after
\* the download returned.
RetrievalInOrder(r) ==
    /\ \A i \in Calls(r, "get_file") :
         AfterOk(r, i, "reply") /\ log[r][i - 1].arg = MsgProcessing
    /\ \A i \in Calls(r, "download") : AfterOk(r, i, "get_file")
    /\ \A i \in Calls(r, "put") \cup Calls(r, "open") :
         AfterOk(r, i, "download")

\* Run r removes its staged file only as its last call, and only after a
\* reply that was its last: one that reports the upload and returned, or
\* the reply of the except clause.
RemovalLast(r) ==
    \A i \in Calls(r, "remove") :
        /\ i = Len(log[r]) /\ Done(r)
        /\ i > 1 /\ log[r][i - 1].op = "reply"
        /\ \/ log[r][i - 1].arg = MsgError
           \/ (i - 1) \in UploadReplies(r) /\ log[r][i - 1].res = "ok"

====
